---- MODULE Spec2Model ----
(***************************************************************************)
(* Model of geos::operation::relateng::RelateSegmentString                 *)
(* (src/src/operation/relateng/RelateSegmentString.cpp).                   *)
(*                                                                         *)
(* A walk borrows the caller's coordinate sequence (pts); normalisation    *)
(* may replace the active sequence by a derived one owned by the walk      *)
(* (csStore).  Neighbour lookup, node-section synthesis and the            *)
(* containing-segment predicate are pure reads of the active sequence.     *)
(* C++ indices are 0-based; getCoordinate translates to the 1-based        *)
(* sequences of TLA+.                                                      *)
(***************************************************************************)
EXTENDS Integers, Sequences, FiniteSets, Bags, TLC

\* ---------------------------------------------------------------- bounds
\* longest coordinate sequence a walk is constructed from
MaxLen == 4
\* longest ring a walk is constructed from when only normalisation is explored
MaxRingLen == 6
\* number of grid points the coordinates are drawn from
NumPts == 3

\* The k-th grid point: a strip two points wide with spacing 10, so that the
\* first three points are a triangle and the first four the square
\* (0,0),(10,0),(0,10),(10,10).
GridPoint(k) == << 10 * (k % 2), 10 * (k \div 2) >>

Points == { GridPoint(k) : k \in 0 .. (NumPts - 1) }

\* a null CoordinateXY pointer / an empty unique_ptr
NULL == << >>

\* sentinel segment index (std::size_t max; segIndex + 1 wraps to 0)
INDEX_UNKNOWN == 0 - 1

\* ------------------------------------------------- coordinate sequences
equals2D(p, q) == p[1] = q[1] /\ p[2] = q[2]

\* CoordinateSequence::hasRepeatedPoints
hasRepeatedPoints(s) == \E i \in 1 .. (Len(s) - 1) : equals2D(s[i], s[i + 1])

\* CoordinateSequence::reverse
reverse(s) == [ i \in 1 .. Len(s) |-> s[Len(s) + 1 - i] ]

\* CoordinateSequence::clone
clone(s) == s

RECURSIVE removeRepeatedPoints(_)
\* RepeatedPointRemover::removeRepeatedPoints: keep a point unless it is
\* 2D-equal to the point kept before it
removeRepeatedPoints(s) ==
    IF Len(s) <= 1 THEN s
    ELSE LET r == removeRepeatedPoints(SubSeq(s, 1, Len(s) - 1))
         IN  IF equals2D(r[Len(r)], s[Len(s)]) THEN r ELSE Append(r, s[Len(s)])

RECURSIVE signedArea2(_, _)
\* twice the signed area of the ring (shoelace sum from segment i onwards)
signedArea2(s, i) ==
    IF i >= Len(s) THEN 0
    ELSE (s[i][1] * s[i + 1][2] - s[i + 1][1] * s[i][2]) + signedArea2(s, i + 1)

\* Orientation::isCCW
isCCW(s) == signedArea2(s, 1) > 0

\* ------------------------------------------------------ SegmentString
size(s) == Len(s)

getCoordinate(s, i) == s[i + 1]

isClosed(s) == equals2D(s[1], s[Len(s)])

prevInRing(s, index) ==
    getCoordinate(s, IF index = 0 THEN size(s) - 2 ELSE index - 1)

nextInRing(s, index) ==
    getCoordinate(s, IF index < size(s) - 1 THEN index + 1 ELSE 1)

\* ------------------------------------------------ RelateSegmentString
\* the sequence the walk's seq pointer designates
Active(w) == IF w.seq = "pts" THEN w.pts ELSE w.csStore

\* prevVertex without the wrap across the seam of a closed walk
prevVertex_NoRingWrap(s, segIndex, pt) ==
    LET segStart == getCoordinate(s, segIndex)
    IN  IF ~ equals2D(segStart, pt) THEN segStart
        ELSE IF segIndex > 0 THEN getCoordinate(s, segIndex - 1)
        ELSE NULL

prevVertex(s, segIndex, pt) ==
    LET segStart == getCoordinate(s, segIndex)
    IN  IF ~ equals2D(segStart, pt) THEN segStart
        ELSE IF segIndex > 0 THEN getCoordinate(s, segIndex - 1)
        ELSE IF isClosed(s) THEN prevInRing(s, segIndex)
        ELSE NULL

\* nextVertex wrapping at the last vertex whether or not the walk is closed
nextVertex_AlwaysWrap(s, segIndex, pt) ==
    LET segEnd == getCoordinate(s, segIndex + 1)
    IN  IF ~ equals2D(segEnd, pt) THEN segEnd
        ELSE IF size(s) = 2 /\ segIndex = INDEX_UNKNOWN THEN getCoordinate(s, 0)
        ELSE IF segIndex < size(s) - 2 THEN getCoordinate(s, segIndex + 2)
        ELSE nextInRing(s, segIndex + 1)

nextVertex(s, segIndex, pt) ==
    LET segEnd == getCoordinate(s, segIndex + 1)
    IN  IF ~ equals2D(segEnd, pt) THEN segEnd
        ELSE IF size(s) = 2 /\ segIndex = INDEX_UNKNOWN THEN getCoordinate(s, 0)
        ELSE IF segIndex < size(s) - 2 THEN getCoordinate(s, segIndex + 2)
        ELSE IF isClosed(s) THEN nextInRing(s, segIndex + 1)
        ELSE NULL

\* createNodeSection taking the end points of the segment as the neighbours
createNodeSection_SegmentEnds(w, segIndex, intPt) ==
    LET s  == Active(w)
        c0 == getCoordinate(s, segIndex)
        c1 == getCoordinate(s, segIndex + 1)
    IN  [ dim          |-> w.dim,
          isNodeAtVertex |-> (equals2D(intPt, c0) \/ equals2D(intPt, c1)),
          prev         |-> c0,
          pt           |-> intPt,
          next         |-> c1 ]

createNodeSection(w, segIndex, intPt) ==
    LET s  == Active(w)
        c0 == getCoordinate(s, segIndex)
        c1 == getCoordinate(s, segIndex + 1)
    IN  [ dim          |-> w.dim,
          isNodeAtVertex |-> (equals2D(intPt, c0) \/ equals2D(intPt, c1)),
          prev         |-> prevVertex(s, segIndex, intPt),
          pt           |-> intPt,
          next         |-> nextVertex(s, segIndex, intPt) ]

\* isContainingSegment without the test for a closed walk
isContainingSegment_NoClosedTest(s, segIndex, pt) ==
    LET c0 == getCoordinate(s, segIndex)
        c1 == getCoordinate(s, segIndex + 1)
    IN  IF equals2D(pt, c0) THEN TRUE
        ELSE IF equals2D(pt, c1)
             THEN LET isFinalSegment == (segIndex = size(s) - 2)
                  IN  IF ~ isFinalSegment THEN FALSE ELSE TRUE
        ELSE TRUE

\* isContainingSegment declining every end vertex, the final one included
isContainingSegment_EndDeclined(s, segIndex, pt) ==
    LET c0 == getCoordinate(s, segIndex)
        c1 == getCoordinate(s, segIndex + 1)
    IN  IF equals2D(pt, c0) THEN TRUE
        ELSE IF equals2D(pt, c1) THEN FALSE
        ELSE TRUE

isContainingSegment(s, segIndex, pt) ==
    LET c0 == getCoordinate(s, segIndex)
        c1 == getCoordinate(s, segIndex + 1)
    IN  IF equals2D(pt, c0) THEN TRUE
        ELSE IF equals2D(pt, c1)
             THEN LET isFinalSegment == (segIndex = size(s) - 2)
                  IN  IF isClosed(s) \/ ~ isFinalSegment THEN FALSE ELSE TRUE
        ELSE TRUE

\* What a read through a pointer to a destroyed sequence can yield: the
\* old content still in the freed block, or nothing.
FreedReads(old) == { old, << >> }

\* orientAndRemoveRepeated adopting the clone without reversing it
orientAndRemoveRepeated_CloneKept(w, orientCW) ==
    LET s           == Active(w)
        isFlipped   == (orientCW = isCCW(s))
        hasRepeated == hasRepeatedPoints(s)
        w1 == IF hasRepeated
              THEN [ w EXCEPT !.csStore =
                         IF isFlipped THEN reverse(removeRepeatedPoints(s))
                                      ELSE removeRepeatedPoints(s) ]
              ELSE w
        seqReads == IF hasRepeated /\ w.seq = "csStore"
                    THEN FreedReads(s) ELSE { s }
    IN  IF ~ isFlipped /\ ~ hasRepeated THEN { w }
        ELSE IF isFlipped
             THEN { [ w1 EXCEPT !.csStore = clone(c), !.seq = "csStore" ]
                      : c \in seqReads }
             ELSE { [ w1 EXCEPT !.seq = "csStore" ] }

\* orientAndRemoveRepeated reversing the active sequence where it lies
\* instead of a clone of it
orientAndRemoveRepeated_InPlace(w, orientCW) ==
    LET s           == Active(w)
        isFlipped   == (orientCW = isCCW(s))
        hasRepeated == hasRepeatedPoints(s)
        w1 == IF hasRepeated
              THEN [ w EXCEPT !.csStore = removeRepeatedPoints(s),
                              !.seq = "csStore" ]
              ELSE w
    IN  IF ~ isFlipped /\ ~ hasRepeated THEN { w }
        ELSE IF isFlipped
             THEN { IF w1.seq = "pts"
                    THEN [ w1 EXCEPT !.pts = reverse(w1.pts) ]
                    ELSE [ w1 EXCEPT !.csStore = reverse(w1.csStore) ] }
             ELSE { w1 }

\* The walks orientAndRemoveRepeated can leave.  When the active sequence is
\* already the owned one, has repeated points and is flipped, the first
\* assignment to csStore destroys the sequence seq still points to and
\* seq->clone() then reads it.
orientAndRemoveRepeated(w, orientCW) ==
    LET s           == Active(w)
        isFlipped   == (orientCW = isCCW(s))
        hasRepeated == hasRepeatedPoints(s)
        w1 == IF hasRepeated
              THEN [ w EXCEPT !.csStore =
                         IF isFlipped THEN reverse(removeRepeatedPoints(s))
                                      ELSE removeRepeatedPoints(s) ]
              ELSE w
        seqReads == IF hasRepeated /\ w.seq = "csStore"
                    THEN FreedReads(s) ELSE { s }
    IN  IF ~ isFlipped /\ ~ hasRepeated THEN { w }
        ELSE IF isFlipped
             THEN { [ w1 EXCEPT !.csStore = reverse(clone(c)), !.seq = "csStore" ]
                      : c \in seqReads }
             ELSE { [ w1 EXCEPT !.seq = "csStore" ] }

\* removeRepeated storing the derived sequence without making it the active one
removeRepeated_NotAdopted(w) ==
    LET s == Active(w)
    IN  IF ~ hasRepeatedPoints(s) THEN w
        ELSE [ w EXCEPT !.csStore = removeRepeatedPoints(s) ]

removeRepeated(w) ==
    LET s == Active(w)
    IN  IF ~ hasRepeatedPoints(s) THEN w
        ELSE [ w EXCEPT !.csStore = removeRepeatedPoints(s), !.seq = "csStore" ]

\* --------------------------------------------------------------- state
VARIABLES
    walk,   \* the RelateSegmentString: pts (borrowed), csStore (owned), seq, dim
    orig,   \* the caller's sequence as it was at construction
    calls,  \* the last two normalisation calls: [op, orientCW, before (the walk)]
    res     \* what the last call returned

vars == << walk, orig, calls, res >>

SeqsOf(n) == [ 1 .. n -> Points ]

\* sequences createLine accepts: at least two points
LineSeqs == UNION { SeqsOf(n) : n \in 2 .. MaxLen }

\* sequences createRing accepts: closed, at least four points, not flat
RingSeqs(maxLen) == { s \in UNION { SeqsOf(n) : n \in 4 .. maxLen } :
                        isClosed(s) /\ signedArea2(s, 1) # 0 }

NoResult == [ op |-> "none" ]

createLine(pts) == [ pts |-> pts, csStore |-> NULL, seq |-> "pts", dim |-> "L" ]

createRing(pts) == [ pts |-> pts, csStore |-> NULL, seq |-> "pts", dim |-> "A" ]

Constructed(maxRingLen) ==
    /\ \/ \E pts \in LineSeqs : walk = createLine(pts)
       \/ \E pts \in RingSeqs(maxRingLen) : walk = createRing(pts)
    /\ orig = walk.pts
    /\ calls = << >>
    /\ res = NoResult

Init == Constructed(MaxLen)

\* construction for the exploration of normalisation alone
InitNormalize == Constructed(MaxRingLen)

\* keep the last two calls
Record(c) == IF Len(calls) < 2 THEN Append(calls, c) ELSE << calls[2], c >>

\* segment indices of the active sequence
SegIndices == 0 .. (size(Active(walk)) - 2)

\* points of segment segIndex: its two end points and its midpoint
OnSegment(segIndex) ==
    LET c0 == getCoordinate(Active(walk), segIndex)
        c1 == getCoordinate(Active(walk), segIndex + 1)
    IN  { c0, c1, << (c0[1] + c1[1]) \div 2, (c0[2] + c1[2]) \div 2 >> }

OrientAndRemoveRepeated ==
    /\ walk.dim = "A"
    /\ \E orientCW \in BOOLEAN :
         /\ \E w \in orientAndRemoveRepeated(walk, orientCW) : walk' = w
         /\ calls' = Record([ op |-> "orientAndRemoveRepeated",
                              orientCW |-> orientCW, before |-> walk ])
    /\ res' = NoResult
    /\ UNCHANGED orig

RemoveRepeated ==
    /\ walk' = removeRepeated(walk)
    /\ calls' = Record([ op |-> "removeRepeated", orientCW |-> FALSE,
                         before |-> walk ])
    /\ res' = NoResult
    /\ UNCHANGED orig

CreateNodeSection ==
    /\ \E segIndex \in SegIndices : \E intPt \in OnSegment(segIndex) :
         res' = [ op |-> "createNodeSection", segIndex |-> segIndex,
                  value |-> createNodeSection(walk, segIndex, intPt) ]
    /\ UNCHANGED << walk, orig, calls >>

IsContainingSegment ==
    /\ \E segIndex \in SegIndices : \E pt \in OnSegment(segIndex) :
         res' = [ op |-> "isContainingSegment", segIndex |-> segIndex, pt |-> pt,
                  value |-> isContainingSegment(Active(walk), segIndex, pt) ]
    /\ UNCHANGED << walk, orig, calls >>

Next ==
    \/ OrientAndRemoveRepeated
    \/ RemoveRepeated
    \/ CreateNodeSection
    \/ IsContainingSegment

Spec == Init /\ [][Next]_vars

\* the preprocessing stage alone, on longer rings
NextNormalize ==
    \/ OrientAndRemoveRepeated
    \/ RemoveRepeated

SpecNormalize == InitNormalize /\ [][NextNormalize]_vars

TypeOK ==
    /\ walk.seq \in { "pts", "csStore" }
    /\ walk.dim \in { "L", "A" }
    /\ Len(calls) <= 2
\* ------------------------------------------------------------ properties
\* the active sequence, and the most recent normalisation call
Seq0 == Active(walk)

Last == calls[Len(calls)]

Range(s) == { s[i] : i \in 1 .. Len(s) }

\* the points of s as a multiset
BagOf(s) == [ p \in Range(s) |-> Cardinality({ i \in 1 .. Len(s) : s[i] = p }) ]

LastIs(op) == calls # << >> /\ Last.op = op

\* the orientation of s differs from the requested one
Flipped(s, orientCW) == (orientCW = isCCW(s))

\* the segments that have vertex k of the closed walk s as an end point
RingIncident(s, k) == { k, IF k = 0 THEN size(s) - 2 ELSE k - 1 }

\* the segments that have vertex k of the open walk s as an end point
LineIncident(s, k) == { k - 1, k } \cap (0 .. (size(s) - 2))

Claimers(s, segs, k) ==
    { i \in segs : isContainingSegment(s, i, getCoordinate(s, k)) }

\* C1: after orientAndRemoveRepeated(orientCW) on a sequence that has
\* consecutive duplicates and the orientation opposite to the requested one,
\* the active sequence is the de-duplicated original, reversed.
C1_DedupThenReversed ==
    ( /\ LastIs("orientAndRemoveRepeated")
      /\ hasRepeatedPoints(Active(Last.before))
      /\ Flipped(Active(Last.before), Last.orientCW) )
    => Seq0 = reverse(removeRepeatedPoints(Active(Last.before)))

\* C2: orientAndRemoveRepeated(orientCW) called twice in a row leaves the
\* active sequence the first call left.
C2_OrientIdempotent ==
    ( /\ Len(calls) = 2
      /\ calls[1].op = "orientAndRemoveRepeated"
      /\ calls[2].op = "orientAndRemoveRepeated"
      /\ calls[1].orientCW = calls[2].orientCW )
    => Seq0 = Active(calls[2].before)

\* C3: in a closed walk without consecutive duplicates every vertex (the
\* closing vertex counted once) is claimed by exactly one of the two
\* segments it is an end point of.
C3_RingVertexClaimedOnce ==
    ( /\ size(Seq0) >= 2
      /\ isClosed(Seq0)
      /\ ~ hasRepeatedPoints(Seq0) )
    => \A k \in 0 .. (size(Seq0) - 2) :
          /\ Cardinality(RingIncident(Seq0, k)) = 2
          /\ Cardinality(Claimers(Seq0, RingIncident(Seq0, k), k)) = 1
          /\ isContainingSegment(Seq0, k, getCoordinate(Seq0, k))

C3_Witness ==
    /\ res.op = "isContainingSegment"
    /\ size(Seq0) >= 4
    /\ isClosed(Seq0)
    /\ ~ hasRepeatedPoints(Seq0)
    /\ res.segIndex = size(Seq0) - 2
    /\ equals2D(res.pt, getCoordinate(Seq0, 0))
    /\ res.value = FALSE

\* C4: in an open walk a segment claims its end vertex (when that differs
\* from its start vertex) exactly when it is the final segment, and without
\* repeated points every vertex is claimed by exactly one incident segment.
C4_OpenEndVertexOwner ==
    ( size(Seq0) >= 2 /\ ~ isClosed(Seq0) )
    => /\ \A i \in 0 .. (size(Seq0) - 2) :
            ~ equals2D(getCoordinate(Seq0, i), getCoordinate(Seq0, i + 1))
            => ( isContainingSegment(Seq0, i, getCoordinate(Seq0, i + 1))
                 <=> i = size(Seq0) - 2 )
       /\ ~ hasRepeatedPoints(Seq0)
            => \A k \in 0 .. (size(Seq0) - 1) :
                  Cardinality(Claimers(Seq0, LineIncident(Seq0, k), k)) = 1

C4_Witness ==
    /\ res.op = "isContainingSegment"
    /\ size(Seq0) = 2
    /\ ~ isClosed(Seq0)
    /\ res.segIndex = 0
    /\ equals2D(res.pt, getCoordinate(Seq0, 1))
    /\ res.value = TRUE

\* C5: on a closed walk the node section of a point of a segment has both
\* neighbours; at the seam they wrap to the second-to-last and to the
\* second vertex.
C5_RingNeighboursPresent ==
    ( res.op = "createNodeSection" /\ isClosed(Seq0) )
    => /\ res.value.prev # NULL
       /\ res.value.next # NULL
       /\ ( res.segIndex = 0 /\ equals2D(res.value.pt, getCoordinate(Seq0, 0)) )
            => res.value.prev = getCoordinate(Seq0, size(Seq0) - 2)
       /\ ( /\ res.segIndex = size(Seq0) - 2
            /\ equals2D(res.value.pt, getCoordinate(Seq0, size(Seq0) - 1)) )
            => res.value.next = getCoordinate(Seq0, 1)

C5_Witness ==
    /\ res.op = "createNodeSection"
    /\ size(Seq0) >= 4
    /\ isClosed(Seq0)
    /\ res.segIndex = 0
    /\ equals2D(res.value.pt, getCoordinate(Seq0, 0))
    /\ res.value.prev = getCoordinate(Seq0, size(Seq0) - 2)
    /\ res.value.prev # res.value.pt

\* C6: on an open walk the previous neighbour is absent exactly at the first
\* vertex queried on segment 0, the next neighbour exactly at the last vertex
\* queried on the final segment; otherwise a vertex of the walk is returned.
C6_OpenNeighboursAbsent ==
    ( res.op = "createNodeSection" /\ ~ isClosed(Seq0) )
    => /\ res.value.prev = NULL
            <=> ( /\ res.segIndex = 0
                  /\ equals2D(res.value.pt, getCoordinate(Seq0, 0)) )
       /\ res.value.next = NULL
            <=> ( /\ res.segIndex = size(Seq0) - 2
                  /\ equals2D(res.value.pt, getCoordinate(Seq0, size(Seq0) - 1)) )
       /\ res.value.prev # NULL => res.value.prev \in Range(Seq0)
       /\ res.value.next # NULL => res.value.next \in Range(Seq0)

C6_Witness ==
    /\ res.op = "createNodeSection"
    /\ size(Seq0) >= 3
    /\ ~ isClosed(Seq0)
    /\ res.segIndex = size(Seq0) - 2
    /\ equals2D(res.value.pt, getCoordinate(Seq0, size(Seq0) - 1))
    /\ res.value.next = NULL
    /\ res.value.prev # NULL

\* C7: orientAndRemoveRepeated on a ring without consecutive duplicates
\* leaves the walk as it is when the orientation is the requested one, and
\* otherwise makes the active sequence the original reversed (same length,
\* same multiset of points).
C7_OrientNoRepeats ==
    ( /\ LastIs("orientAndRemoveRepeated")
      /\ ~ hasRepeatedPoints(Active(Last.before)) )
    => IF ~ Flipped(Active(Last.before), Last.orientCW)
       THEN walk = Last.before
       ELSE /\ Seq0 = reverse(Active(Last.before))
            /\ Len(Seq0) = Len(Active(Last.before))
            /\ BagOf(Seq0) = BagOf(Active(Last.before))

C7_Witness ==
    /\ LastIs("orientAndRemoveRepeated")
    /\ ~ hasRepeatedPoints(Active(Last.before))
    /\ Flipped(Active(Last.before), Last.orientCW)
    /\ Seq0 = reverse(Active(Last.before))
    /\ Seq0 # Active(Last.before)

\* C8: the sequence the walk was constructed from keeps its original
\* content, and whenever a call changes the active sequence the active
\* sequence afterwards is the copy the walk owns.
C8_BorrowedUntouched ==
    /\ walk.pts = orig
    /\ calls # << >> => Last.before.pts = orig
    /\ ( calls # << >> /\ Seq0 # Active(Last.before) ) => walk.seq = "csStore"

C8_Witness ==
    /\ Len(calls) = 2
    /\ calls[1].op = "removeRepeated"
    /\ calls[2].op = "orientAndRemoveRepeated"
    /\ Active(calls[2].before) # orig
    /\ Seq0 # Active(calls[2].before)
    /\ walk.seq = "csStore"
    /\ walk.pts = orig

\* C9: removeRepeated leaves a sequence without consecutive duplicates
\* unchanged; after a call the active sequence has no consecutive
\* duplicates, and a second call in a row changes nothing.
C9_RemoveRepeated ==
    LastIs("removeRepeated")
    => /\ ~ hasRepeatedPoints(Active(Last.before)) => walk = Last.before
       /\ ~ hasRepeatedPoints(Seq0)
       /\ ( Len(calls) = 2 /\ calls[1].op = "removeRepeated" )
            => Seq0 = Active(calls[2].before)

C9_Witness ==
    /\ Len(calls) = 2
    /\ calls[1].op = "removeRepeated"
    /\ calls[2].op = "removeRepeated"
    /\ hasRepeatedPoints(Active(calls[1].before))
    /\ Seq0 = Active(calls[2].before)
    /\ Seq0 = removeRepeatedPoints(orig)

\* the description createNodeSection is to give of vertex k of s
AtVertex(s, k, before, after) ==
    [ dim |-> walk.dim, isNodeAtVertex |-> TRUE,
      prev |-> getCoordinate(s, before), pt |-> getCoordinate(s, k),
      next |-> getCoordinate(s, after) ]

\* C10: in a walk without consecutive duplicates a vertex shared by two
\* consecutive segments is described alike from either segment: at a vertex,
\* between the vertex before and the vertex after it (wrapping at the seam
\* of a closed walk), neither of which equals the vertex.
C10_SharedVertexSection ==
    ( size(Seq0) >= 2 /\ ~ hasRepeatedPoints(Seq0) )
    => /\ \A k \in 1 .. (size(Seq0) - 2) :
            LET v == getCoordinate(Seq0, k)
                a == createNodeSection(walk, k - 1, v)
                b == createNodeSection(walk, k, v)
            IN  /\ a = b
                /\ a = AtVertex(Seq0, k, k - 1, k + 1)
                /\ ~ equals2D(a.prev, v)
                /\ ~ equals2D(a.next, v)
       /\ ( isClosed(Seq0) /\ size(Seq0) >= 3 )
            => LET v == getCoordinate(Seq0, 0)
                   a == createNodeSection(walk, size(Seq0) - 2, v)
                   b == createNodeSection(walk, 0, v)
               IN  /\ a = b
                   /\ a = AtVertex(Seq0, 0, size(Seq0) - 2, 1)
                   /\ ~ equals2D(a.prev, v)
                   /\ ~ equals2D(a.next, v)

C10_Witness ==
    /\ res.op = "createNodeSection"
    /\ size(Seq0) = 3
    /\ ~ isClosed(Seq0)
    /\ ~ hasRepeatedPoints(Seq0)
    /\ res.segIndex = 1
    /\ res.value = AtVertex(Seq0, 1, 0, 2)
    /\ res.value = createNodeSection(walk, 0, getCoordinate(Seq0, 1))
====
